---- MODULE Spec2Model ----
(***************************************************************************)
(* GenericSlippageDetector._detect (src/src/detectors/generic_slippage/    *)
(* detector.py) as a state machine.  The detector walks every function of  *)
(* every contract; per function it first collects the lvalues of the       *)
(* external calls (call_results), skips the function when there is none,   *)
(* and otherwise evaluates every Condition operation against the data      *)
(* dependency oracle is_dependent, appending one result per Condition that *)
(* is tainted both by a parameter and by a call result.                    *)
(*                                                                         *)
(* The IR (contracts, functions, nodes, operations, variables) and the     *)
(* oracle are inputs: Init draws them from bounded sets.  One action is    *)
(* one iteration of the loop over functions (lines 43-98).                 *)
(***************************************************************************)
EXTENDS Integers, Sequences, FiniteSets, TLC

\* ------------------------------------------------------------------ bounds
\* The oracle answers "dependent" on at most MaxDeps (variable, source) pairs.
MaxDeps == 3
\* _detect is called at most MaxRuns times on the same contracts.
MaxRuns == 2
\* A run holds at most MaxFunctions functions.
MaxFunctions == 2
\* main finds at most MaxFiles contract files.
MaxFiles == 2
\* The JSON slither writes lists at most MaxDetectors detector results.
MaxDetectors == 1

\* ------------------------------------------------------------- IR universe
\* Variable identities (slither Variable objects, compared by identity).
Vars == {1, 2, 3}
\* ir.lvalue of an operation that captures nothing.
None == 0
\* Display names; "" is the name of an unnamed variable.
NameChoices ==
    { <<"a", "userMin", "b">>,
      <<"a", "a", "a">>,
      <<"a", "", "">> }

Pairs == Vars \X Vars

HighLevelCall(lv) == [kind |-> "HighLevelCall", lvalue |-> lv]
LowLevelCall(lv) == [kind |-> "LowLevelCall", lvalue |-> lv]
Condition == [kind |-> "Condition", lvalue |-> None]
Other(lv) == [kind |-> "Other", lvalue |-> lv]

Node(irs, read, line) == [irs |-> irs, variables_read |-> read, lines |-> line]
Function(params, nodes) == [parameters |-> params, nodes |-> nodes]

\* two independent calls assigning 1 and 3; require(a > userMin && b > 0)
FnTwoCalls ==
    Function(<<2>>, << Node(<<HighLevelCall(1)>>, <<>>, 1),
                       Node(<<LowLevelCall(3)>>, <<>>, 2),
                       Node(<<Condition>>, <<1, 2, 3>>, 3) >>)
\* no captured call result: a discarded call, an assignment, a condition
FnNoCapture ==
    Function(<<1, 2>>, << Node(<<HighLevelCall(None), Other(3)>>, <<1>>, 1),
                          Node(<<Condition>>, <<1, 2, 3>>, 2) >>)
\* two parameters; a node holding two Conditions, evaluated before the only
\* capturing call is made; an assignment and a discarded call next to that
\* call; a Condition whose node reads nothing
FnCallAfter ==
    Function(<<1, 2>>, << Node(<<Condition, Condition>>, <<3, 1>>, 1),
                          Node(<<Other(2), LowLevelCall(None), HighLevelCall(3)>>, <<1>>, 2),
                          Node(<<Condition>>, <<>>, 3) >>)
FunctionSet == {FnTwoCalls, FnNoCapture, FnCallAfter}

\* The contract each function is declared in: the first two in one contract,
\* the third in another.
Home(function) == IF function \in {FnTwoCalls, FnNoCapture} THEN 1 ELSE 2

\* The contracts holding a list of functions: neighbours declared in the same
\* contract share it.
RECURSIVE Layout(_)
Layout(fs) ==
    IF fs = <<>> THEN <<>>
    ELSE LET rest == Layout(Tail(fs))
         IN IF rest # <<>> /\ Home(Head(rest[1].functions)) = Home(Head(fs))
            THEN << [functions |-> <<Head(fs)>> \o rest[1].functions] >> \o Tail(rest)
            ELSE << [functions |-> <<Head(fs)>>] >> \o rest

FunctionLists == UNION { [1..n -> FunctionSet] : n \in 0..MaxFunctions }
ContractLists == { Layout(fs) : fs \in FunctionLists }

\* The oracles: every relation with at most MaxDeps dependent pairs.
Relations == { r \in SUBSET Pairs : Cardinality(r) <= MaxDeps }

VARIABLES
    contracts,      \* self.slither.contracts
    name,           \* Variable.name of every variable
    dep,            \* pairs <<v, s>> on which is_dependent answers True
    fails,          \* pairs <<v, s>> on which is_dependent raises
    pc,             \* "idle", "running", "returned" or "raised"
    pos,            \* index of the function the loops of lines 42-43 are at
    results,        \* results (line 40)
    call_results,   \* call_results of the function analysed last (line 48)
    evals,          \* the Conditions evaluated in that function, with their locals
    queries,        \* is_dependent calls made for that function
    run,            \* number of _detect calls started
    previous,       \* what the previous _detect call returned
    \* run_all.py
    files,          \* contracts (line 156): the pragma of each contract file
    bpc,            \* where main is: "idle", "loop", "counting", "done", "raised"
    bi,             \* index of the file the loop of line 175 is at
    result,         \* result of analyze_contract (line 88), res in main (line 177)
    overall,        \* overall (line 158): summary and contracts
    INSTALLED_SOLC, \* the module's cache (line 22)
    solc_binaries,  \* versions whose solc binary exists under SOLC_BASE_DIR
    json_exists,    \* whether json_out of the last analyze_contract call exists
    install_log     \* the install_solc calls made, in order

detector == <<contracts, name, dep, fails, pc, pos, results, call_results, evals,
              queries, run, previous>>
batch == <<files, bpc, bi, result, overall, INSTALLED_SOLC, solc_binaries,
           json_exists, install_log>>
vars == <<detector, batch>>

\* ---------------------------------------------------------- pure helpers
Range(s) == { s[i] : i \in DOMAIN s }

\* list(set(...)): the distinct elements in an arbitrary but fixed order.
ListOfSet(S) == CHOOSE s \in [1..Cardinality(S) -> S] : Range(s) = S

\* for x in xs: for y in ys: the pairs in iteration order.
Product(xs, ys) ==
    [k \in 1..(Len(xs) * Len(ys)) |->
        <<xs[((k - 1) \div Len(ys)) + 1], ys[((k - 1) % Len(ys)) + 1]>>]

\* The functions in the order the loops of lines 42-43 reach them.
RECURSIVE FunctionsFrom(_, _)
FunctionsFrom(cs, c) ==
    IF c > Len(cs) THEN <<>>
    ELSE [f \in 1..Len(cs[c].functions) |-> <<c, f>>] \o FunctionsFrom(cs, c + 1)

FunctionAt(cs, p) == cs[p[1]].functions[p[2]]

\* A correlator that adds a dependency of its own: a variable depends on itself.
OwnDependency(var, source) == var = source \/ <<var, source>> \in dep

\* is_dependent(var, source, contract) where it answers.  The answers are an
\* input (dep); one relation serves every contract scope.
is_dependent(var, source) == <<var, source>> \in dep

\* The collector without LowLevelCall in the isinstance test of line 51.
HighLevelOnly(function) ==
    UNION { { ir.lvalue : ir \in { x \in Range(node.irs) :
                                     x.kind = "HighLevelCall" /\ x.lvalue # None } } :
            node \in Range(function.nodes) }

\* The collector without the isinstance test of line 51.
AnyLvalue(function) ==
    UNION { { ir.lvalue : ir \in { x \in Range(node.irs) : x.lvalue # None } } :
            node \in Range(function.nodes) }

\* The collector without the lvalue test of line 53.
CapturesNone(function) ==
    UNION { { ir.lvalue : ir \in { x \in Range(node.irs) :
                                     x.kind \in {"HighLevelCall", "LowLevelCall"} } } :
            node \in Range(function.nodes) }

\* The collector with line 48 hoisted out of the loop over functions: the
\* set is never emptied between functions.
Accumulated(function) ==
    call_results \cup
    UNION { { ir.lvalue : ir \in { x \in Range(node.irs) :
                                     /\ x.kind \in {"HighLevelCall", "LowLevelCall"}
                                     /\ x.lvalue # None } } :
            node \in Range(function.nodes) }

\* Lines 48-54: the lvalues of the calls of a function.
CallResults(function) ==
    UNION { { ir.lvalue : ir \in { x \in Range(node.irs) :
                                     /\ x.kind \in {"HighLevelCall", "LowLevelCall"}
                                     /\ x.lvalue # None } } :
            node \in Range(function.nodes) }

\* No early exit.
NeverSkips(function) == FALSE

\* Line 56: if not call_results: continue.
SkipsFunction(function) == CallResults(function) = {}

\* results kept from the previous call.
KeptResults == results

\* Line 40: results = [].
EmptyResults == <<>>

\* Lines 60-62: the Condition operations of a function, in visiting order.
RECURSIVE Conditions(_, _)
Conditions(nodes, n) ==
    IF n > Len(nodes) THEN <<>>
    ELSE SelectSeq([i \in 1..Len(nodes[n].irs) |-> <<n, i>>],
                   LAMBDA q : nodes[q[1]].irs[q[2]].kind = "Condition")
         \o Conditions(nodes, n + 1)

\* Lines 69-74 and 77-82: the sources some read variable depends on, one entry
\* per (variable, source) pair that answers True.
Tainted(condition_vars, sources) ==
    LET hits == SelectSeq(Product(condition_vars, sources),
                          LAMBDA q : is_dependent(q[1], q[2]))
    IN [k \in 1..Len(hits) |-> hits[k][2]]

\* The second loop nested in the first: every (variable, call result) query is
\* repeated for every parameter.
AskedNested(condition_vars, params, res) ==
    Product(condition_vars, params)
        \o [k \in 1..(Len(params) * Len(condition_vars) * Len(res)) |->
              Product(condition_vars, res)[((k - 1) % (Len(condition_vars) * Len(res))) + 1]]

\* Lines 70-73 and 78-81: the is_dependent calls of one Condition, in order.
Asked(condition_vars, params, res) ==
    Product(condition_vars, params) \o Product(condition_vars, res)

\* Lines 64-82 for one Condition of a function: the locals after the two loops,
\* and the is_dependent calls made (asked), in order.
Evaluate(function, results_of_calls, q) ==
    LET node == function.nodes[q[1]]
        condition_vars == node.variables_read
        res == ListOfSet(results_of_calls)
    IN [node |-> q[1], ir |-> q[2],
        condition_vars |-> condition_vars,
        tainted_by_param |-> Tainted(condition_vars, function.parameters),
        tainted_by_call |-> Tainted(condition_vars, res),
        asked |-> Asked(condition_vars, function.parameters, res)]

\* Line 87 with "or" for "and".
MatchesEither(e) == e.tainted_by_param # <<>> \/ e.tainted_by_call # <<>>

\* Line 87: both taint lists are non-empty.
Matches(e) == e.tainted_by_param # <<>> /\ e.tainted_by_call # <<>>

\* Line 89 without set().
NamesWithRepeats(e) == [k \in DOMAIN e.tainted_by_param |-> name[e.tainted_by_param[k]]]

\* Line 89.
ParamNames(e) == ListOfSet({ name[p] : p \in Range(e.tainted_by_param) })
\* Line 90.
CallNames(e) ==
    ListOfSet({ name[r] : r \in { x \in Range(e.tainted_by_call) : name[x] # "" } })

\* Lines 92-98: the result generated for a matching Condition.
Finding(p, function, e) ==
    [function |-> p, lines |-> function.nodes[e.node].lines,
     param_names |-> ParamNames(e), call_names |-> CallNames(e)]

\* Lines 60-98 for one function: the evaluation of each of its Conditions.
EvalsOf(function, results_of_calls) ==
    LET cs == Conditions(function.nodes, 1)
    IN [k \in 1..Len(cs) |-> Evaluate(function, results_of_calls, cs[k])]

FindingsOf(p, function, es) ==
    LET hit == SelectSeq(es, Matches)
    IN [k \in 1..Len(hit) |-> Finding(p, function, hit[k])]

SumQueries(es) ==
    LET RECURSIVE Sum(_)
        Sum(k) == IF k = 0 THEN 0 ELSE Len(es[k].asked) + Sum(k - 1)
    IN Sum(Len(es))

\* The oracle raises on some query of the function.
Raises(es) == \E k \in DOMAIN es : Range(es[k].asked) \cap fails # {}

\* ------------------------------------------------------------------ Init
\* main has not been started.
NoResult == [contract |-> 0, status |-> "None", solc_version |-> "None",
             vulnerabilities |-> <<>>, error |-> "None"]
NoSummary == [total_contracts |-> 0, successful |-> 0, failed |-> 0,
              with_vulnerabilities |-> 0, without_vulnerabilities |-> 0]
BatchIdle ==
    /\ files = <<>>
    /\ bpc = "idle"
    /\ bi = 1
    /\ result = NoResult
    /\ overall = [summary |-> NoSummary, contracts |-> <<>>]
    /\ INSTALLED_SOLC = {}
    /\ solc_binaries = {}
    /\ json_exists = FALSE
    /\ install_log = <<>>

InitWith(failing) ==
    /\ BatchIdle
    /\ contracts \in ContractLists
    /\ name \in NameChoices
    /\ dep \in Relations
    /\ fails \in failing
    /\ pc = "idle"
    /\ pos = 1
    /\ results = <<>>
    /\ call_results = {}
    /\ evals = <<>>
    /\ queries = 0
    /\ run = 0
    /\ previous = <<>>

Init == InitWith({{}})

\* --------------------------------------------------------------- actions
Input == <<contracts, name, dep, fails>>

\* Lines 39-40: _detect is called.
Detect ==
    /\ pc \in {"idle", "returned"}
    /\ run < MaxRuns
    /\ pc' = "running"
    /\ run' = run + 1
    /\ pos' = 1
    /\ results' = EmptyResults
    /\ previous' = results
    /\ call_results' = {}
    /\ evals' = <<>>
    /\ queries' = 0
    /\ UNCHANGED Input
    /\ UNCHANGED batch

Here == FunctionAt(contracts, FunctionsFrom(contracts, 1)[pos])
AtFunction == pc = "running" /\ pos <= Len(FunctionsFrom(contracts, 1))

\* Lines 43-57: a function without call results is skipped.
SkipFunction ==
    /\ AtFunction
    /\ SkipsFunction(Here)
    /\ call_results' = {}
    /\ evals' = <<>>
    /\ queries' = 0
    /\ pos' = pos + 1
    /\ UNCHANGED <<Input, pc, results, run, previous>>
    /\ UNCHANGED batch

\* Lines 43-98: a function with call results; every Condition is evaluated.
AnalyzeFunction ==
    /\ AtFunction
    /\ ~SkipsFunction(Here)
    /\ LET es == EvalsOf(Here, CallResults(Here))
       IN /\ ~Raises(es)
          /\ call_results' = CallResults(Here)
          /\ evals' = es
          /\ queries' = SumQueries(es)
          /\ results' = results \o FindingsOf(FunctionsFrom(contracts, 1)[pos], Here, es)
    /\ pos' = pos + 1
    /\ UNCHANGED <<Input, pc, run, previous>>
    /\ UNCHANGED batch

\* Line 73 or 81: is_dependent raises; nothing in _detect catches it.
OracleRaises ==
    /\ AtFunction
    /\ ~SkipsFunction(Here)
    /\ Raises(EvalsOf(Here, CallResults(Here)))
    /\ pc' = "raised"
    /\ call_results' = CallResults(Here)
    /\ UNCHANGED <<Input, pos, results, evals, queries, run, previous>>
    /\ UNCHANGED batch

\* Line 100.
Return ==
    /\ pc = "running"
    /\ pos > Len(FunctionsFrom(contracts, 1))
    /\ pc' = "returned"
    /\ UNCHANGED <<Input, pos, results, call_results, evals, queries, run, previous>>
    /\ UNCHANGED batch

Next == Detect \/ SkipFunction \/ AnalyzeFunction \/ Return

Spec == Init /\ [][Next]_vars

\* The same analysis against an oracle that raises on one pair.
FailChoices == { {q} : q \in Pairs }
InitFail == InitWith(FailChoices)
NextFail == Next \/ OracleRaises
SpecFail == InitFail /\ [][NextFail]_vars

\* ------------------------------------------------------------ run_all.py
\* What extract_pragma returns: found is FALSE for None (no pragma line in the
\* first 30 lines, or an unreadable file); versions are the matches of
\* \d+\.\d+\.\d+ in the line; range says whether it holds "^" or ">=".
Pragma(found, versions, range) ==
    [found |-> found, versions |-> versions, range |-> range]
PragmaSet ==
    { Pragma(FALSE, <<>>, FALSE),
      Pragma(TRUE, <<"0.8.19">>, TRUE),
      Pragma(TRUE, <<"0.5.2">>, FALSE),
      Pragma(TRUE, <<"0.4.26">>, TRUE) }
FileLists == UNION { [1..n -> PragmaSet] : n \in 0..MaxFiles }

\* versions[0].rsplit(".", 1)[0] (line 58) of the versions above.
MajorMinor(version) ==
    CASE version = "0.8.19" -> "0.8"
      [] version = "0.5.2" -> "0.5"
      [] version = "0.4.26" -> "0.4"
      [] OTHER -> "0.0"

\* Lines 47-68.
select_solc_version(pragma) ==
    IF ~pragma.found THEN "0.8.24"
    ELSE IF pragma.versions = <<>> THEN "0.8.24"
    ELSE IF ~pragma.range THEN pragma.versions[1]
    ELSE LET major_minor == MajorMinor(pragma.versions[1])
         IN IF major_minor = "0.5" THEN "0.5.17"
            ELSE IF major_minor = "0.6" THEN "0.6.12"
            ELSE IF major_minor = "0.7" THEN "0.7.6"
            ELSE IF major_minor = "0.8" THEN "0.8.24"
            ELSE pragma.versions[1]

\* What install_solc does: it installs the binary, returns without leaving
\* one, or raises.
InstallOutcomes == {"installed", "nothing", "raises"}

\* ensure_solc with the version cached before the binary is looked for.
CachesBeforeCheck(version, installed, binaries, install) ==
    IF version \in installed
    THEN [raised |-> FALSE, called |-> FALSE, installed |-> installed,
          binaries |-> binaries]
    ELSE LET left == IF install = "installed" THEN binaries \cup {version} ELSE binaries
         IN [raised |-> install = "raises" \/ version \notin left, called |-> TRUE,
             installed |-> installed \cup {version}, binaries |-> left]

\* Lines 70-82.  raised: install_solc raised, or the RuntimeError of line 79.
ensure_solc(version, installed, binaries, install) ==
    IF version \in installed
    THEN [raised |-> FALSE, called |-> FALSE, installed |-> installed,
          binaries |-> binaries]
    ELSE LET left == IF install = "installed" THEN binaries \cup {version} ELSE binaries
         IN IF install = "raises" \/ version \notin left
            THEN [raised |-> TRUE, called |-> TRUE, installed |-> installed,
                  binaries |-> left]
            ELSE [raised |-> FALSE, called |-> TRUE,
                  installed |-> installed \cup {version}, binaries |-> left]

\* What run(cmd) does (line 115): ran is FALSE when subprocess.run raises;
\* stderr is what slither printed; written, valid, detectors and bad_entry
\* describe the file it left at json_out: whether there is one, whether
\* json.load reads it, how many well-formed detector results it lists, and
\* whether an entry that is no object follows them.
FailingStderr == {"Invalid solc compilation", "Traceback"}
Stderrs == FailingStderr \cup {"", "warning"}
SlitherOutcomes ==
    { [ran |-> FALSE, stderr |-> "", written |-> FALSE, valid |-> FALSE,
       detectors |-> 0, bad_entry |-> FALSE] }
    \cup { [ran |-> TRUE, stderr |-> e, written |-> FALSE, valid |-> FALSE,
            detectors |-> 0, bad_entry |-> FALSE] : e \in Stderrs }
    \cup { [ran |-> TRUE, stderr |-> e, written |-> TRUE, valid |-> FALSE,
            detectors |-> 0, bad_entry |-> FALSE] : e \in Stderrs }
    \cup { [ran |-> TRUE, stderr |-> e, written |-> TRUE, valid |-> TRUE,
            detectors |-> n, bad_entry |-> b] :
              e \in Stderrs, n \in 0..MaxDetectors, b \in BOOLEAN }

\* Lines 88-140: the try block.  raised says an exception left it (exc is its
\* text); json says whether json_out exists when the block is left.
TryBlock(i, pragma, installed, binaries, install, slither) ==
    LET solc_version == select_solc_version(pragma)
        solc == ensure_solc(solc_version, installed, binaries, install)
        r0 == [contract |-> i, status |-> "None", solc_version |-> "None",
               vulnerabilities |-> <<>>, error |-> "None"]
        r1 == [r0 EXCEPT !.solc_version = solc_version]
        r2 == [r1 EXCEPT !.status = "SUCCESS"]
        found == [k \in 1..slither.detectors |-> "generic-slippage"]
        out(raised, exc, r, json) ==
            [raised |-> raised, exc |-> exc, result |-> r, json |-> json,
             installed |-> solc.installed, binaries |-> solc.binaries,
             called |-> solc.called, solc_version |-> solc_version]
    IN IF solc.raised THEN out(TRUE, "solc not installed", r0, FALSE)
       ELSE IF ~slither.ran THEN out(TRUE, "slither not run", r1, FALSE)
       ELSE IF slither.stderr \in FailingStderr
            THEN out(FALSE, "", [r1 EXCEPT !.status = "FAILED",
                                           !.error = slither.stderr],
                     slither.written)
       ELSE IF ~slither.written THEN out(FALSE, "", r2, FALSE)
       ELSE IF ~slither.valid THEN out(TRUE, "json not read", r2, TRUE)
       ELSE IF slither.bad_entry
            THEN out(TRUE, "entry not read", [r2 EXCEPT !.vulnerabilities = found], TRUE)
       ELSE out(FALSE, "", [r2 EXCEPT !.vulnerabilities = found], TRUE)

\* analyze_contract without its except clause.
Unhandled(o) == o

\* Lines 142-146.
ExceptClause(o) ==
    IF o.raised
    THEN [o EXCEPT !.raised = FALSE, !.result.status = "FAILED", !.result.error = o.exc]
    ELSE o

\* Lines 148-150.
FinallyClause(o) == [o EXCEPT !.json = FALSE]

\* Lines 87-150.
analyze_contract(i, pragma, installed, binaries, install, slither) ==
    FinallyClause(ExceptClause(TryBlock(i, pragma, installed, binaries, install, slither)))

\* The counters with the vulnerabilities looked at before the status.
CountedByVulnerabilities(summary, r) ==
    IF r.vulnerabilities # <<>>
    THEN [summary EXCEPT !.successful = @ + 1, !.with_vulnerabilities = @ + 1]
    ELSE IF r.status = "SUCCESS"
    THEN [summary EXCEPT !.successful = @ + 1, !.without_vulnerabilities = @ + 1]
    ELSE [summary EXCEPT !.failed = @ + 1]

\* Lines 181-190.
Counted(summary, r) ==
    IF r.status = "SUCCESS"
    THEN IF r.vulnerabilities # <<>>
         THEN [summary EXCEPT !.successful = @ + 1, !.with_vulnerabilities = @ + 1]
         ELSE [summary EXCEPT !.successful = @ + 1, !.without_vulnerabilities = @ + 1]
    ELSE [summary EXCEPT !.failed = @ + 1]

\* The detector is not part of a batch run: slither runs in a subprocess.
InitBatch ==
    /\ contracts = <<>>
    /\ name = <<"a", "userMin", "b">>
    /\ dep = {}
    /\ fails = {}
    /\ pc = "idle"
    /\ pos = 1
    /\ results = <<>>
    /\ call_results = {}
    /\ evals = <<>>
    /\ queries = 0
    /\ run = 0
    /\ previous = <<>>
    /\ files \in FileLists
    /\ bpc = "idle"
    /\ bi = 1
    /\ result = NoResult
    /\ overall = [summary |-> NoSummary, contracts |-> <<>>]
    /\ INSTALLED_SOLC = {}
    /\ solc_binaries \in {{}, {"0.8.24"}}
    /\ json_exists = FALSE
    /\ install_log = <<>>

\* Lines 155-173.
Main ==
    /\ bpc = "idle"
    /\ bpc' = "loop"
    /\ bi' = 1
    /\ overall' = [summary |-> [NoSummary EXCEPT !.total_contracts = Len(files)],
                   contracts |-> <<>>]
    /\ UNCHANGED <<detector, files, result, INSTALLED_SOLC, solc_binaries,
                   json_exists, install_log>>

\* Line 177: analyze_contract(contract), lines 87-150.
AnalyzeContract ==
    /\ bpc = "loop"
    /\ bi <= Len(files)
    /\ \E install \in InstallOutcomes, slither \in SlitherOutcomes :
          LET o == analyze_contract(bi, files[bi], INSTALLED_SOLC, solc_binaries,
                                    install, slither)
          IN /\ bpc' = IF o.raised THEN "raised" ELSE "counting"
             /\ result' = o.result
             /\ INSTALLED_SOLC' = o.installed
             /\ solc_binaries' = o.binaries
             /\ json_exists' = o.json
             /\ install_log' =
                   IF o.called
                   THEN Append(install_log,
                               [file |-> bi, version |-> o.solc_version,
                                raised |-> install = "raises",
                                exists |-> o.solc_version \in o.binaries])
                   ELSE install_log
    /\ UNCHANGED <<detector, files, bi, overall>>

\* Lines 178-190.
Count ==
    /\ bpc = "counting"
    /\ overall' = [summary |-> Counted(overall.summary, result),
                   contracts |-> Append(overall.contracts, result)]
    /\ bi' = bi + 1
    /\ bpc' = "loop"
    /\ UNCHANGED <<detector, files, result, INSTALLED_SOLC, solc_binaries,
                   json_exists, install_log>>

\* Lines 192-207: the loop is over, the two files are written.
Finish ==
    /\ bpc = "loop"
    /\ bi > Len(files)
    /\ bpc' = "done"
    /\ UNCHANGED <<detector, files, bi, result, overall, INSTALLED_SOLC,
                   solc_binaries, json_exists, install_log>>

NextBatch == Main \/ AnalyzeContract \/ Count \/ Finish

SpecBatch == InitBatch /\ [][NextBatch]_vars

\* ------------------------------------------------------------ the claims
\* The function the last SkipFunction or AnalyzeFunction step dealt with.
Processed == pc \in {"running", "returned"} /\ pos > 1
LastPos == FunctionsFrom(contracts, 1)[pos - 1]
Last == FunctionAt(contracts, LastPos)

\* The call-result set, the read set and the two taint sets as the
\* specification words them, from the IR and the oracle's answers alone.
CallLvalues(fn) ==
    { v \in Vars : \E n \in DOMAIN fn.nodes : \E i \in DOMAIN fn.nodes[n].irs :
        /\ fn.nodes[n].irs[i].kind \in {"HighLevelCall", "LowLevelCall"}
        /\ fn.nodes[n].irs[i].lvalue = v }
ReadsOf(fn, n) == Range(fn.nodes[n].variables_read)
TaintingParameters(fn, n) ==
    { p \in Range(fn.parameters) : \E v \in ReadsOf(fn, n) : <<v, p>> \in dep }
TaintingCallResults(fn, n) ==
    { r \in CallLvalues(fn) : \E v \in ReadsOf(fn, n) : <<v, r>> \in dep }
ConditionsIn(fn, n) ==
    { i \in DOMAIN fn.nodes[n].irs : fn.nodes[n].irs[i].kind = "Condition" }
\* The results of this run for node n of the function at position p.
FindingsAt(p, fn, n) ==
    SelectSeq(results, LAMBDA r : r.function = p /\ r.lines = fn.nodes[n].lines)
FindingsOfFunction(p) == SelectSeq(results, LAMBDA r : r.function = p)
NoRepeat(s) == \A i, j \in DOMAIN s : i # j => s[i] # s[j]

\* C1: a Condition whose node's read variables depend on a parameter but on no
\* call result of the function, or on a call result but on no parameter, gets
\* no Finding.
C1_BothSidesRequired ==
    Processed =>
        \A n \in DOMAIN Last.nodes :
            ( /\ ConditionsIn(Last, n) # {}
              /\ (TaintingParameters(Last, n) = {}) # (TaintingCallResults(Last, n) = {}) )
            => FindingsAt(LastPos, Last, n) = <<>>

\* A function with call results was analysed, and one of its Conditions is
\* tainted by a parameter and by no call result.
C1_Witness ==
    /\ Processed
    /\ call_results # {}
    /\ \E k \in DOMAIN evals :
          evals[k].tainted_by_param # <<>> /\ evals[k].tainted_by_call = <<>>

\* C2 as stated: a node whose reads depend on a parameter and on a call result
\* gets one Finding per Condition it holds, and both name lists of each such
\* Finding are non-empty and without repeated name.
C2_Original ==
    Processed =>
        \A n \in DOMAIN Last.nodes :
            (TaintingParameters(Last, n) # {} /\ TaintingCallResults(Last, n) # {})
            => LET fs == FindingsAt(LastPos, Last, n)
               IN /\ Len(fs) = Cardinality(ConditionsIn(Last, n))
                  /\ \A k \in DOMAIN fs :
                        /\ fs[k].param_names # <<>>
                        /\ fs[k].call_names # <<>>
                        /\ NoRepeat(fs[k].param_names)
                        /\ NoRepeat(fs[k].call_names)

\* C2 as amended: one Finding per such Condition, no repeated name in either
\* list, a non-empty parameter-name list, and a call-result-name list that is
\* non-empty when some tainting call result has a non-empty name.
C2_OneFindingPerCondition ==
    Processed =>
        \A n \in DOMAIN Last.nodes :
            (TaintingParameters(Last, n) # {} /\ TaintingCallResults(Last, n) # {})
            => LET fs == FindingsAt(LastPos, Last, n)
               IN /\ Len(fs) = Cardinality(ConditionsIn(Last, n))
                  /\ \A k \in DOMAIN fs :
                        /\ fs[k].param_names # <<>>
                        /\ (\E r \in TaintingCallResults(Last, n) : name[r] # "")
                              => fs[k].call_names # <<>>
                        /\ NoRepeat(fs[k].param_names)
                        /\ NoRepeat(fs[k].call_names)

\* A node with two Conditions, tainted on both sides, has its two Findings.
C2_Witness ==
    /\ Processed
    /\ \E n \in DOMAIN Last.nodes :
          /\ Cardinality(ConditionsIn(Last, n)) = 2
          /\ TaintingParameters(Last, n) # {}
          /\ TaintingCallResults(Last, n) # {}
          /\ Len(FindingsAt(LastPos, Last, n)) = 2

\* C3: a function no Call of which captures an lvalue yields no Finding, and
\* the oracle is not queried while it is dealt with.
C3_EarlyExit ==
    (Processed /\ CallLvalues(Last) = {})
    => /\ queries = 0
       /\ evals = <<>>
       /\ FindingsOfFunction(LastPos) = <<>>

\* Such a function, with parameters and a Condition whose reads depend on one.
C3_Witness ==
    /\ Processed
    /\ CallLvalues(Last) = {}
    /\ \E n \in DOMAIN Last.nodes :
          ConditionsIn(Last, n) # {} /\ TaintingParameters(Last, n) # {}

\* C4: a failing is_dependent query never makes _detect fail.
C4_FailureAbsorbed == pc # "raised"

\* Scenario C: parameter userMin (2), calls assigning a (1) and b (3), one
\* Condition reading a, userMin and b; every variable depends on itself only.
ScenarioC ==
    /\ contracts = Layout(<<FnTwoCalls>>)
    /\ name = <<"a", "userMin", "b">>
    /\ dep = { <<v, v>> : v \in Vars }

\* C5 as stated: scenario C yields one Finding whose call results are [a].
C5_Original ==
    (ScenarioC /\ pc = "returned")
    => Len(results) = 1 /\ results[1].call_names = <<"a">>

\* C5 as amended: scenario C yields one Finding, for userMin, whose call
\* results are a and b.
C5_ScenarioC ==
    (ScenarioC /\ pc = "returned")
    => /\ Len(results) = 1
       /\ results[1].param_names = <<"userMin">>
       /\ Len(results[1].call_names) = 2
       /\ Range(results[1].call_names) = {"a", "b"}

C5_Witness == ScenarioC /\ pc = "returned" /\ run = 1

\* C6 as stated: a call result that taints a Condition with a Finding is
\* assigned by a Call in the Condition's node or in a node before it.
C6_Original ==
    Processed =>
        \A k \in DOMAIN evals :
            (evals[k].tainted_by_param # <<>> /\ evals[k].tainted_by_call # <<>>)
            => \A r \in Range(evals[k].tainted_by_call) :
                  \E n \in 1..evals[k].node : \E i \in DOMAIN Last.nodes[n].irs :
                      /\ Last.nodes[n].irs[i].kind \in {"HighLevelCall", "LowLevelCall"}
                      /\ Last.nodes[n].irs[i].lvalue = r

\* C6 as amended: a call result that taints a Condition is assigned by a Call
\* of the same function, in any of its nodes.
C6_CallOfSameFunction ==
    Processed =>
        \A k \in DOMAIN evals :
            Range(evals[k].tainted_by_call) \subseteq CallLvalues(Last)

\* A Finding for a Condition whose only capturing call comes in a later node.
C6_Witness ==
    /\ Processed
    /\ Last = FnCallAfter
    /\ FindingsAt(LastPos, Last, 1) # <<>>

C8_NoEmptyName ==
    \A k \in DOMAIN results :
        /\ "" \notin Range(results[k].param_names)
        /\ "" \notin Range(results[k].call_names)

\* C9: the call-result set of a function is the set of the lvalues of its
\* Calls.
C9_CallResultSet == Processed => call_results = CallLvalues(Last)

\* A function with a call that captures, next to an assignment and to a call
\* that captures nothing.
C9_Witness ==
    /\ Processed
    /\ Last = FnCallAfter
    /\ call_results = {3}

C11_QueryBound ==
    Processed =>
        \A k \in DOMAIN evals :
            Len(evals[k].asked)
                <= Len(Last.nodes[evals[k].node].variables_read)
                     * (Len(Last.parameters) + Cardinality(CallLvalues(Last)))

\* A Condition with two parameters, a call result and two read variables was
\* evaluated, and the oracle was queried for it.
C11_Witness ==
    /\ Processed
    /\ Len(Last.parameters) = 2
    /\ \E k \in DOMAIN evals : Len(evals[k].asked) = 6

\* What a function at position p yields when analysed alone, from its own
\* parameters, nodes and call lvalues and the oracle's answers: per node, one
\* Finding per Condition when both taint sets are non-empty.  Name lists are
\* compared as sets.
RECURSIVE AloneFrom(_, _, _)
AloneFrom(p, fn, n) ==
    IF n > Len(fn.nodes) THEN <<>>
    ELSE (IF TaintingParameters(fn, n) # {} /\ TaintingCallResults(fn, n) # {}
          THEN [k \in 1..Cardinality(ConditionsIn(fn, n)) |->
                  [function |-> p, lines |-> fn.nodes[n].lines,
                   params |-> { name[x] : x \in TaintingParameters(fn, n) },
                   calls |-> { name[x] : x \in TaintingCallResults(fn, n) } \ {""}]]
          ELSE <<>>)
         \o AloneFrom(p, fn, n + 1)

\* The concatenation, in function order, for the first k functions.
RECURSIVE AloneUpTo(_)
AloneUpTo(k) ==
    IF k = 0 THEN <<>>
    ELSE AloneUpTo(k - 1)
           \o AloneFrom(FunctionsFrom(contracts, 1)[k],
                        FunctionAt(contracts, FunctionsFrom(contracts, 1)[k]), 1)

Reported(rs) ==
    [k \in DOMAIN rs |->
        [function |-> rs[k].function, lines |-> rs[k].lines,
         params |-> Range(rs[k].param_names), calls |-> Range(rs[k].call_names)]]

\* C12: the Findings of a run are the concatenation, in function order, of
\* what each function yields alone, and the call-result set in use is that of
\* the function being analysed, whatever functions came before it.
C12_PerFunction ==
    pc \in {"running", "returned"}
    => /\ Reported(results) = AloneUpTo(pos - 1)
       /\ pos > 1 => call_results = CallLvalues(Last)

\* Two functions were analysed; the first captures call results and has a
\* Finding, the second reads a variable that depends on a call result of the
\* first and on one of its own parameters, and captures no call result itself.
C12_Witness ==
    /\ pc = "returned"
    /\ Len(FunctionsFrom(contracts, 1)) = 2
    /\ LET f1 == FunctionAt(contracts, FunctionsFrom(contracts, 1)[1])
           f2 == FunctionAt(contracts, FunctionsFrom(contracts, 1)[2])
       IN /\ FindingsOfFunction(FunctionsFrom(contracts, 1)[1]) # <<>>
          /\ CallLvalues(f2) = {}
          /\ \E n \in DOMAIN f2.nodes :
                /\ ConditionsIn(f2, n) # {}
                /\ TaintingParameters(f2, n) # {}
                /\ \E v \in ReadsOf(f2, n) : \E r \in CallLvalues(f1) : <<v, r>> \in dep
          /\ FindingsOfFunction(FunctionsFrom(contracts, 1)[2]) = <<>>

\* The results analyze_contract has returned so far, counted or not.
Returned ==
    overall.contracts \o (IF bpc = "counting" THEN <<result>> ELSE <<>>)
HowMany(rs, Test(_)) == Cardinality({ k \in DOMAIN rs : Test(rs[k]) })

\* C13: after n contract files, successful + failed = n and
\* with_vulnerabilities + without_vulnerabilities = successful; a FAILED result
\* counts in failed only; at the end successful + failed = total_contracts.
C13_SummaryCounters ==
    bpc \in {"loop", "counting", "done"}
    => LET summary == overall.summary
           rs == overall.contracts
       IN /\ Len(rs) = bi - 1
          /\ summary.successful + summary.failed = Len(rs)
          /\ summary.with_vulnerabilities + summary.without_vulnerabilities
                = summary.successful
          /\ summary.failed = HowMany(rs, LAMBDA r : r.status = "FAILED")
          /\ summary.with_vulnerabilities
                = HowMany(rs, LAMBDA r : r.status = "SUCCESS" /\ r.vulnerabilities # <<>>)
          /\ summary.without_vulnerabilities
                = HowMany(rs, LAMBDA r : r.status = "SUCCESS" /\ r.vulnerabilities = <<>>)
          /\ bpc = "done" => summary.successful + summary.failed = summary.total_contracts

\* main is over; one result FAILED after a detector result had been read, one
\* succeeded with a vulnerability.
C13_Witness ==
    /\ bpc = "done"
    /\ \E k \in DOMAIN overall.contracts :
          /\ overall.contracts[k].status = "FAILED"
          /\ overall.contracts[k].vulnerabilities # <<>>
    /\ overall.summary.with_vulnerabilities = 1
    /\ overall.summary.failed = 1

====
